---- MODULE Spec2Model ----
(***************************************************************************)
(* A model of brainstorm/data_iterators.py: the source iterators           *)
(* (Undivided, Minibatches), the decorators that wrap them, the shape      *)
(* validator and the mask-to-length helper.                                 *)
(*                                                                         *)
(* An array is a record [shape, val]: shape is the tuple of axis sizes and *)
(* val maps every index tuple (0-based components, as in the source) to    *)
(* the number stored there.  A dict is a function from keys to values.     *)
(* A raised exception is the record [exc |-> its class name].             *)
(***************************************************************************)
EXTENDS Integers, Sequences, FiniteSets, TLC

----------------------------------------------------------------------------
(* Bounds of the model. *)

\* largest padding size given to Pad
MaxPad == 1
\* largest number of sequences (axis 1) of a data set
MaxSeq == 3
\* largest number of time steps (axis 0) of a data set
MaxTime == 2
\* largest batch_size given to Minibatches
MaxBatch == 2
\* passes a consumer drives through one iterator
MaxPasses == 2

----------------------------------------------------------------------------
(* Arrays. *)

NoObject == [none |-> TRUE]

Error(name) == [exc |-> name]
IsError(x) == "exc" \in DOMAIN x

RECURSIVE Indices(_)
Indices(shape) ==
    IF shape = <<>> THEN {<<>>}
    ELSE {<<i>> \o rest : i \in 0 .. (Head(shape) - 1), rest \in Indices(Tail(shape))}

\* hasattr(data, 'shape')
HasShape(v) == "shape" \in DOMAIN v

Max(S) == CHOOSE x \in S : \A y \in S : y <= x
Min(S) == CHOOSE x \in S : \A y \in S : x <= y

\* a / b without the true division of line 3: the quotient rounded down
CeilFloored(a, b) == a \div b

\* math.ceil(a / b) for a >= 0, b >= 1 (true division, line 3)
Ceil(a, b) == (a + b - 1) \div b

\* the indices a Python slice(start, stop) selects on an axis of size n:
\* negative bounds count from the end, and both are clamped to 0..n
SliceBound(x, n) == IF x < 0 THEN Max({x + n, 0}) ELSE Min({x, n})
SliceLo(start, n) == SliceBound(start, n)
SliceHi(start, stop, n) == Max({SliceBound(stop, n), SliceBound(start, n)})

----------------------------------------------------------------------------
(* The shape validator and the sequence-length deriver. *)

Range(f) == {f[k] : k \in DOMAIN f}

\* _assert_correct_data_format without the comparison of the time steps
assert_sequences_only(named_data) ==
    IF \E name \in DOMAIN named_data :
          \/ ~HasShape(named_data[name])
          \/ Len(named_data[name].shape) < 3
    THEN Error("IteratorValidationError")
    ELSE IF DOMAIN named_data = {}
    THEN Error("ValueError")
    ELSE LET nr_sequences == [name \in DOMAIN named_data |-> named_data[name].shape[2]]
             nr_timesteps == [name \in DOMAIN named_data |-> named_data[name].shape[1]]
         IN  IF Min(Range(nr_sequences)) # Max(Range(nr_sequences))
             THEN Error("IteratorValidationError")
             ELSE [nr_sequences |-> Min(Range(nr_sequences)),
                   time_steps |-> Min(Range(nr_timesteps))]

\* _assert_correct_data_format: the returned (nr_sequences, time_steps), or
\* the exception raised.  min() of no values raises ValueError.
assert_correct_data_format(named_data) ==
    IF \E name \in DOMAIN named_data :
          \/ ~HasShape(named_data[name])
          \/ Len(named_data[name].shape) < 3
    THEN Error("IteratorValidationError")
    ELSE IF DOMAIN named_data = {}
    THEN Error("ValueError")
    ELSE LET nr_sequences == [name \in DOMAIN named_data |-> named_data[name].shape[2]]
             nr_timesteps == [name \in DOMAIN named_data |-> named_data[name].shape[1]]
         IN  IF Min(Range(nr_sequences)) # Max(Range(nr_sequences))
             THEN Error("IteratorValidationError")
             ELSE IF Min(Range(nr_timesteps)) # Max(Range(nr_timesteps))
             THEN Error("IteratorValidationError")
             ELSE [nr_sequences |-> Min(Range(nr_sequences)),
                   time_steps |-> Min(Range(nr_timesteps))]

\* numpy argmax of a boolean column c (a sequence): the first position, from
\* 0, holding the largest value, which is 0 when no entry is TRUE
ArgMax(c) ==
    IF \E i \in 1 .. Len(c) : c[i]
    THEN Min({i \in 1 .. Len(c) : c[i]}) - 1
    ELSE 0

\* _calculate_lengths_from_mask with the columns of b searched from the
\* first time step on (argmax of b, not of b[::-1])
calculate_lengths_unreversed(mask) ==
    IF SubSeq(mask.shape, 3, Len(mask.shape)) # <<1>>
    THEN Error("AssertionError")
    ELSE LET T == mask.shape[1]
             B == mask.shape[2]
             b(t, s) == mask.val[<<t, s, 0>>] # 0
             column(s) == [i \in 1 .. T |-> b(i - 1, s)]
             lengths == [s \in 1 .. B |-> T - ArgMax(column(s - 1))]
         IN  [lens |-> [s \in 1 .. B |->
                 IF ~(\E t \in 0 .. (T - 1) : b(t, s - 1)) THEN 0 ELSE lengths[s]]]

\* _calculate_lengths_from_mask, for a mask with at least one time step: the
\* vector of lengths (a sequence, one entry per sequence of the batch axis)
\* in the field lens
calculate_lengths_from_mask(mask) ==
    IF SubSeq(mask.shape, 3, Len(mask.shape)) # <<1>>
    THEN Error("AssertionError")
    ELSE LET T == mask.shape[1]
             B == mask.shape[2]
             b(t, s) == mask.val[<<t, s, 0>>] # 0
             \* column s of b[::-1]
             reversed(s) == [i \in 1 .. T |-> b(T - i, s)]
             lengths == [s \in 1 .. B |-> T - ArgMax(reversed(s - 1))]
         IN  [lens |-> [s \in 1 .. B |->
                 IF ~(\E t \in 0 .. (T - 1) : b(t, s - 1)) THEN 0 ELSE lengths[s]]]

----------------------------------------------------------------------------
(* The source iterators. *)

RECURSIVE Prod(_)
Prod(s) == IF s = <<>> THEN 1 ELSE Head(s) * Prod(Tail(s))

RECURSIVE SumOver(_, _)
SumOver(S, f) ==
    IF S = {} THEN 0
    ELSE LET x == CHOOSE y \in S : TRUE IN f[x] + SumOver(S \ {x}, f)

data_shapes_of(named_data) == [n \in DOMAIN named_data |-> named_data[n].shape]

\* Undivided.__init__: the iterator, or the exception raised
Undivided_init(named_data) ==
    LET fmt == assert_correct_data_format(named_data)
    IN  IF IsError(fmt) THEN fmt
        ELSE [kind |-> "Undivided",
              data_shapes |-> data_shapes_of(named_data),
              length |-> 1,
              data |-> named_data,
              total_size |-> SumOver(DOMAIN named_data,
                                 [n \in DOMAIN named_data |-> Prod(named_data[n].shape)])]

\* the sequence lengths Minibatches.__init__ derives from cut_according_to
\* (lines 395-403): a string names a data entry or is absent from the data;
\* anything else is taken as the vector itself
seq_lens_of(cut_according_to, named_data, nr_sequences, time_steps) ==
    IF cut_according_to.ty = "str"
    THEN IF cut_according_to.name \in DOMAIN named_data
         THEN calculate_lengths_from_mask(named_data[cut_according_to.name])
         ELSE [lens |-> [s \in 1 .. nr_sequences |-> time_steps]]
    ELSE IF Len(cut_according_to.items) # nr_sequences
         THEN Error("AssertionError")
         ELSE [lens |-> cut_according_to.items]

\* Minibatches.__init__: the iterator, or the exception raised
Minibatches_init(batch_size, shuffle, cut_according_to, named_data) ==
    LET fmt == assert_correct_data_format(named_data)
    IN  IF IsError(fmt) THEN fmt
        ELSE LET nr_sequences == fmt.nr_sequences
                 time_steps == fmt.time_steps
                 seq_lens == seq_lens_of(cut_according_to, named_data,
                                         nr_sequences, time_steps)
             IN  IF IsError(seq_lens) THEN seq_lens
                 ELSE [kind |-> "Minibatches",
                       data_shapes |-> data_shapes_of(named_data),
                       length |-> Ceil(nr_sequences, batch_size),
                       data |-> named_data,
                       shuffle |-> shuffle,
                       batch_size |-> batch_size,
                       seq_lens |-> seq_lens.lens,
                       sample_size |-> SumOver(DOMAIN named_data,
                           [n \in DOMAIN named_data |->
                               named_data[n].shape[1]
                               * Prod(SubSeq(named_data[n].shape, 3,
                                             Len(named_data[n].shape)))
                               * batch_size])]

\* v[time_slice, batch_slice] with time_slice = slice(None, cutoff) and
\* batch_slice = slice(lo, hi)
slice_array(v, cutoff, lo, hi) ==
    LET T == v.shape[1]
        B == v.shape[2]
        t1 == SliceHi(0, cutoff, T)
        b0 == SliceLo(lo, B)
        b1 == SliceHi(lo, hi, B)
        shape == <<t1, b1 - b0>> \o SubSeq(v.shape, 3, Len(v.shape))
    IN  [shape |-> shape,
         val |-> [i \in Indices(shape) |->
                     v.val[<<i[1], i[2] + b0>> \o SubSeq(i, 3, Len(i))]]]

\* minibatch with the time axis cut to the shortest sequence of the slice
minibatch_shortest(self, idx) ==
    LET lo == idx * self.batch_size
        hi == (idx + 1) * self.batch_size
        n == Len(self.seq_lens)
        in_slice == {self.seq_lens[s] : s \in (SliceLo(lo, n) + 1) .. SliceHi(lo, hi, n)}
        cutoff == Min(in_slice)
    IN  [k \in DOMAIN self.data |-> slice_array(self.data[k], cutoff, lo, hi)]

\* the batch Minibatches.__call__ yields for batch index idx (lines 413-417)
minibatch(self, idx) ==
    LET lo == idx * self.batch_size
        hi == (idx + 1) * self.batch_size
        n == Len(self.seq_lens)
        in_slice == {self.seq_lens[s] : s \in (SliceLo(lo, n) + 1) .. SliceHi(lo, hi, n)}
        cutoff == Max(in_slice)
    IN  [k \in DOMAIN self.data |-> slice_array(self.data[k], cutoff, lo, hi)]

----------------------------------------------------------------------------
(* Configuration dicts of the decorators.  A dict is [keys, at]: keys is   *)
(* the order its keys are iterated in, at maps each key to its value.  An  *)
(* optional dict that was not given (None) is NoObject.                    *)

IsNone(d) == "none" \in DOMAIN d
KeySet(d) == {d.keys[i] : i \in 1 .. Len(d.keys)}
EmptyDict == [keys |-> <<>>, at |-> [k \in {} |-> 0]]
\* d.get(key, default)
Get(d, key, default) == IF key \in KeySet(d) THEN d.at[key] ELSE default

\* Probabilities and ratios are counted in halves: 1.0 is ProbOne halves and
\* 0.5 is ProbHalf.  A draw of rand() or random_sample() is counted in
\* quarters (ProbOne * ProbOne of them make 1.0), so that the products the
\* code compares a draw with are whole numbers.
ProbOne == 2
ProbHalf == 1

\* the default configuration of Flip (line 165)
default_prob_dict == [keys |-> <<"default">>, at |-> [k \in {"default"} |-> ProbHalf]]

\* AddGaussianNoise.__init__: the decorator, or the exception raised
AddGaussianNoise_init(iter, std_dict, mean_dict) ==
    LET mean_keys == IF ~IsNone(mean_dict) THEN KeySet(mean_dict) ELSE {}
        std_keys == KeySet(std_dict)
    IN  IF ~IsNone(mean_dict) /\ mean_keys # std_keys
        THEN Error("IteratorValidationError")
        ELSE IF \E key \in std_keys : key \notin DOMAIN iter.data_shapes
        THEN Error("IteratorValidationError")
        ELSE [kind |-> "AddGaussianNoise",
              data_shapes |-> iter.data_shapes,
              length |-> iter.length,
              second |-> IF IsNone(mean_dict) THEN EmptyDict ELSE mean_dict,
              first |-> std_dict]

\* AddSaltNPepper.__init__
AddSaltNPepper_init(iter, prob_dict, ratio_dict) ==
    LET ratio_keys == IF IsNone(ratio_dict) THEN {} ELSE KeySet(ratio_dict)
        prob_keys == KeySet(prob_dict)
    IN  IF ~IsNone(ratio_dict) /\ ratio_keys # prob_keys
        THEN Error("IteratorValidationError")
        ELSE IF \E key \in prob_keys : key \notin DOMAIN iter.data_shapes
        THEN Error("IteratorValidationError")
        ELSE [kind |-> "AddSaltNPepper",
              data_shapes |-> iter.data_shapes,
              length |-> iter.length,
              second |-> IF IsNone(ratio_dict) THEN EmptyDict ELSE ratio_dict,
              first |-> prob_dict]

\* Flip.__init__
Flip_init(iter, prob_dict_arg) ==
    LET prob_dict == IF IsNone(prob_dict_arg) THEN default_prob_dict ELSE prob_dict_arg
        ok(key) == /\ key \in DOMAIN iter.data_shapes
                   /\ ~(prob_dict.at[key] > ProbOne \/ prob_dict.at[key] < 0)
                   /\ Len(iter.data_shapes[key]) = 5
    IN  IF \E key \in KeySet(prob_dict) : ~ok(key)
        THEN Error("IteratorValidationError")
        ELSE [kind |-> "Flip",
              data_shapes |-> iter.data_shapes,
              length |-> iter.length,
              second |-> EmptyDict,
              first |-> prob_dict]

\* whether a configured vocabulary size passes isinstance(x, int)
IsInt(x) == x.ty = "int"

\* OneHot.__init__
OneHot_init(iter, vocab_size_dict) ==
    LET ok(key) == /\ key \in DOMAIN iter.data_shapes
                   /\ IsInt(vocab_size_dict.at[key])
                   /\ LET shape == iter.data_shapes[key]
                      IN  shape[Len(shape)] = 1 /\ Len(shape) = 3
    IN  IF \E key \in KeySet(vocab_size_dict) : ~ok(key)
        THEN Error("IteratorValidationError")
        ELSE [kind |-> "OneHot",
              data_shapes |-> iter.data_shapes,
              length |-> iter.length,
              second |-> EmptyDict,
              first |-> vocab_size_dict]

\* Pad.__init__ without the comparison of the two dicts' keys
Pad_init_unpaired(iter, size_dict, value_dict) ==
    LET ok(key) == /\ key \in DOMAIN iter.data_shapes
                   /\ Len(iter.data_shapes[key]) = 5
    IN  IF \E key \in KeySet(size_dict) : ~ok(key)
        THEN Error("IteratorValidationError")
        ELSE [kind |-> "Pad",
              data_shapes |-> iter.data_shapes,
              length |-> iter.length,
              second |-> IF IsNone(value_dict) THEN EmptyDict ELSE value_dict,
              first |-> size_dict]

\* Pad.__init__
Pad_init(iter, size_dict, value_dict) ==
    IF ~IsNone(value_dict) /\ KeySet(size_dict) # KeySet(value_dict)
    THEN Error("IteratorValidationError")
    ELSE LET ok(key) == /\ key \in DOMAIN iter.data_shapes
                        /\ Len(iter.data_shapes[key]) = 5
         IN  IF \E key \in KeySet(size_dict) : ~ok(key)
             THEN Error("IteratorValidationError")
             ELSE [kind |-> "Pad",
                   data_shapes |-> iter.data_shapes,
                   length |-> iter.length,
                   second |-> IF IsNone(value_dict) THEN EmptyDict ELSE value_dict,
                   first |-> size_dict]

\* RandomCrop.__init__
RandomCrop_init(iter, shape_dict) ==
    LET ok(key) ==
            LET val == shape_dict.at[key]
            IN  /\ key \in DOMAIN iter.data_shapes
                /\ val.ty = "tuple" /\ Len(val.items) = 2
                /\ LET data_shape == iter.data_shapes[key]
                   IN  /\ Len(data_shape) = 5
                       /\ ~(val.items[1] > data_shape[4] \/ val.items[1] < 0)
                       /\ ~(val.items[2] > data_shape[5] \/ val.items[2] < 0)
    IN  IF \E key \in KeySet(shape_dict) : ~ok(key)
        THEN Error("IteratorValidationError")
        ELSE [kind |-> "RandomCrop",
              data_shapes |-> iter.data_shapes,
              length |-> iter.length,
              second |-> EmptyDict,
              first |-> shape_dict]

----------------------------------------------------------------------------
(* What each decorator's __call__ does to the array of one configured key. *)
(* self.rnd is a seeded generator: a draw is a function of a seed, chosen  *)
(* by the step that draws, and of the element's index.                     *)

\* largest seed a draw is made with
MaxSeed == 3

RECURSIVE SumSeq(_)
SumSeq(s) == IF s = <<>> THEN 0 ELSE Head(s) + SumSeq(Tail(s))

\* rnd.standard_normal(shape)[i], one of -1, 0, 1
standard_normal(seed, i) == ((seed + SumSeq(i)) % 3) - 1
\* rnd.rand(*shape)[i] and rnd.random_sample(), in quarters: 0 .. 3
rand(seed, i) == (seed + SumSeq(i)) % (ProbOne * ProbOne)
\* rnd.random_integers(0, high, batch_size)[b]
random_integers(seed, high, b) == (seed + b) % (high + 1)

\* AddGaussianNoise (lines 84-86): data[key] + std * noise + mean
gaussian_key(a, std, mean, seed) ==
    [shape |-> a.shape,
     val |-> [i \in Indices(a.shape) |-> a.val[i] + std * standard_normal(seed, i) + mean]]

\* AddSaltNPepper (lines 135-138): salt where r >= 1.0 - pr * ratio, then
\* pepper where r <= pr * (1.0 - ratio)
saltnpepper_key(a, pr, ratio, seed) ==
    [shape |-> a.shape,
     val |-> [i \in Indices(a.shape) |->
                LET r == rand(seed, i)
                IN  IF r <= pr * (ProbOne - ratio) THEN 0
                    ELSE IF r >= ProbOne * ProbOne - pr * ratio THEN 1
                    ELSE a.val[i]]]

\* Flip (line 183): data[name][..., ::-1]
flip_key(a) ==
    LET n == Len(a.shape)
    IN  [shape |-> a.shape,
         val |-> [i \in Indices(a.shape) |->
                    a.val[[i EXCEPT ![n] = a.shape[n] - 1 - i[n]]]]]

\* Pad (lines 270-274): a block of the fill value, and the data assigned to
\* its region [size : -size] of the last two axes.  numpy broadcasts the
\* assigned array to the region: an axis of size 1 stretches to the region's
\* size, any other mismatch raises ValueError.
pad_key(a, size, fill) ==
    LET h == a.shape[4]
        w == a.shape[5]
        H == h + 2 * size
        W == w + 2 * size
        r0 == SliceLo(size, H)
        r1 == SliceHi(size, -size, H)
        c0 == SliceLo(size, W)
        c1 == SliceHi(size, -size, W)
        shape == SubSeq(a.shape, 1, 3) \o <<H, W>>
        fits(n, region) == n = region \/ n = 1
    IN  IF ~(fits(h, r1 - r0) /\ fits(w, c1 - c0))
        THEN Error("ValueError")
        ELSE [shape |-> shape,
              val |-> [i \in Indices(shape) |->
                 IF i[4] >= r0 /\ i[4] < r1 /\ i[5] >= c0 /\ i[5] < c1
                 THEN a.val[<<i[1], i[2], i[3],
                              IF h = r1 - r0 THEN i[4] - r0 ELSE 0,
                              IF w = c1 - c0 THEN i[5] - c0 ELSE 0>>]
                 ELSE fill]]

\* the cropping kernel _crop_images(data, crop_h, crop_w, rows, cols, out):
\* out[t, b, c] is the crop_h by crop_w window of data[t, b, c] whose top
\* left corner is (rows[b], cols[b])
crop_images(a, crop_h, crop_w, rows, cols) ==
    LET shape == SubSeq(a.shape, 1, 3) \o <<crop_h, crop_w>>
    IN  [shape |-> shape,
         val |-> [i \in Indices(shape) |->
                    a.val[<<i[1], i[2], i[3], rows[i[2]] + i[4], cols[i[2]] + i[5]>>]]]

\* RandomCrop (lines 319-328)
crop_key(a, crop, seed) ==
    LET crop_h == crop.items[1]
        crop_w == crop.items[2]
        max_r == a.shape[4] - crop_h
        max_c == a.shape[5] - crop_w
        batch_size == a.shape[2]
        row_indices == [b \in 0 .. (batch_size - 1) |-> random_integers(seed, max_r, b)]
        col_indices == [b \in 0 .. (batch_size - 1) |-> random_integers(seed + 1, max_c, b)]
    IN  crop_images(a, crop_h, crop_w, row_indices, col_indices)

\* OneHot (lines 223-224): np.eye(vocab)[data], reshaped to drop axis 2.
\* np.eye of a negative size raises ValueError; an index outside
\* -vocab .. vocab-1 raises IndexError; a negative index counts from the end.
onehot_key(a, vocab_size) ==
    LET vocab == vocab_size.val
    IN  IF vocab < 0 THEN Error("ValueError")
        ELSE IF \E i \in Indices(a.shape) : a.val[i] >= vocab \/ a.val[i] < -vocab
        THEN Error("IndexError")
        ELSE LET shape == <<a.shape[1], a.shape[2], vocab>>
             IN  [shape |-> shape,
                  val |-> [i \in Indices(shape) |->
                     LET v == a.val[<<i[1], i[2], 0>>]
                     IN  IF i[3] = (IF v < 0 THEN v + vocab ELSE v) THEN 1 ELSE 0]]

\* what processing one configured key does to the array: the new array, or
\* the exception raised.  flip tells whether Flip's draw fell under the
\* key's probability.
apply_key(self, key, a, seed) ==
    CASE self.kind = "AddGaussianNoise" ->
            gaussian_key(a, self.first.at[key], Get(self.second, key, 0), seed)
      [] self.kind = "AddSaltNPepper" ->
            saltnpepper_key(a, self.first.at[key], Get(self.second, key, ProbHalf), seed)
      [] self.kind = "Flip" ->
            IF rand(seed, <<>>) < ProbOne * self.first.at[key] THEN flip_key(a) ELSE a
      [] self.kind = "Pad" ->
            pad_key(a, self.first.at[key], Get(self.second, key, 0))
      [] self.kind = "RandomCrop" ->
            crop_key(a, self.first.at[key], seed)
      [] self.kind = "OneHot" ->
            onehot_key(a, self.first.at[key])

----------------------------------------------------------------------------
(* The state: a source iterator built from named_data, at most one         *)
(* decorator around it, and a consumer that drives passes through the      *)
(* outermost iterator.                                                     *)

VARIABLES
    named_data,   \* the named values given to the source's constructor
    src_args,     \* the other arguments: kind, batch_size, shuffle, cut_according_to
    validated,    \* what _assert_correct_data_format returned or raised
    src,          \* the source iterator, NoObject before and without it
    deco_args,    \* the decorator to construct: kind, first and second dict
    deco,         \* the decorator, NoObject when there is none
    pc,           \* where the program is
    raised,       \* the class of the exception that ended it, or "none"
    indices,      \* Minibatches.__call__: the order of the batch indices
    pos,          \* batches the source has yielded in this pass
    cur,          \* the batch (a dict) the decorator is working on
    key_pos,      \* configured keys the decorator has processed for cur
    src_yield,    \* the batches the source yielded in this pass, as yielded
    out_yield,    \* the batches the consumer received in this pass
    passes        \* passes completed

vars == <<named_data, src_args, validated, src, deco_args, deco, pc, raised,
          indices, pos, cur, key_pos, src_yield, out_yield, passes>>

source_vars == <<named_data, src_args>>
pass_vars == <<indices, pos, cur, key_pos, src_yield, out_yield, passes>>

NoBatch == [k \in {} |-> 0]

\* the source's constructor runs (Undivided.__init__, Minibatches.__init__)
ConstructSource ==
    /\ pc = "new"
    /\ LET result == IF src_args.kind = "Undivided"
                     THEN Undivided_init(named_data)
                     ELSE Minibatches_init(src_args.batch_size, src_args.shuffle,
                                           src_args.cut_according_to, named_data)
       IN  /\ validated' = assert_correct_data_format(named_data)
           /\ IF IsError(result)
              THEN /\ src' = NoObject
                   /\ raised' = result.exc
                   /\ pc' = "failed"
              ELSE /\ src' = result
                   /\ raised' = raised
                   /\ pc' = "source"
    /\ UNCHANGED <<source_vars, deco_args, deco, pass_vars>>

decorator_init(iter, args) ==
    CASE args.kind = "AddGaussianNoise" -> AddGaussianNoise_init(iter, args.first, args.second)
      [] args.kind = "AddSaltNPepper" -> AddSaltNPepper_init(iter, args.first, args.second)
      [] args.kind = "Flip" -> Flip_init(iter, args.first)
      [] args.kind = "OneHot" -> OneHot_init(iter, args.first)
      [] args.kind = "Pad" -> Pad_init(iter, args.first, args.second)
      [] args.kind = "RandomCrop" -> RandomCrop_init(iter, args.first)

\* a decorator's constructor runs on the source
Decorate ==
    /\ pc = "source"
    /\ deco_args.kind # "None"
    /\ LET result == decorator_init(src, deco_args)
       IN  IF IsError(result)
           THEN /\ deco' = NoObject
                /\ raised' = result.exc
                /\ pc' = "failed"
           ELSE /\ deco' = result
                /\ raised' = raised
                /\ pc' = "idle"
    /\ UNCHANGED <<source_vars, validated, src, deco_args, pass_vars>>

\* the consumer drives the source itself
Undecorated ==
    /\ pc = "source"
    /\ deco_args.kind = "None"
    /\ pc' = "idle"
    /\ UNCHANGED <<source_vars, validated, src, deco_args, deco, raised, pass_vars>>

Shuffles(n) ==
    {p \in [1 .. n -> 0 .. (n - 1)] : \A i, j \in 1 .. n : p[i] = p[j] => i = j}

\* np.arange(n)
arange(n) == [i \in 1 .. n |-> i - 1]

\* the orders Minibatches.__call__ may visit the batch indices in (lines
\* 409-411): np.arange(self.length), shuffled by self.rnd when shuffle is set
batch_orders(self) ==
    IF self.shuffle THEN Shuffles(self.length) ELSE {arange(self.length)}

\* the consumer calls the outermost iterator: a new pass begins
StartPass ==
    /\ pc = "idle"
    /\ passes < MaxPasses
    /\ indices' \in (IF src.kind = "Minibatches" THEN batch_orders(src) ELSE {<<>>})
    /\ pos' = 0
    /\ cur' = NoBatch
    /\ key_pos' = 0
    /\ src_yield' = <<>>
    /\ out_yield' = <<>>
    /\ pc' = "pull"
    /\ UNCHANGED <<source_vars, validated, src, deco_args, deco, raised, passes>>

\* batches the source's generator yields in one pass: Undivided.__call__ is
\* one yield, Minibatches.__call__ one per entry of indices
source_yields(self, order) == IF self.kind = "Undivided" THEN 1 ELSE Len(order)

\* the batch the source yields next
source_batch(self, order, n) ==
    IF self.kind = "Undivided" THEN self.data ELSE minibatch(self, order[n + 1])

\* the source's generator is resumed: it yields its next batch, or ends,
\* which ends the decorator's loop and the pass
SourceNext ==
    /\ pc = "pull"
    /\ IF pos < source_yields(src, indices)
       THEN /\ cur' = source_batch(src, indices, pos)
            /\ src_yield' = Append(src_yield, cur')
            /\ pos' = pos + 1
            /\ pc' = "deco"
       ELSE /\ pc' = "done"
            /\ UNCHANGED <<cur, src_yield, pos>>
    /\ UNCHANGED <<source_vars, validated, src, deco_args, deco, raised,
                   indices, key_pos, out_yield, passes>>

\* the dict Undivided yields is self.data itself (line 350), so an
\* assignment to one of its keys is an assignment to the source's data; a
\* batch of Minibatches is a dict of its own (line 416)
store(self, batch) ==
    IF self.kind = "Undivided" THEN [self EXCEPT !.data = batch] ELSE self

\* whether the decorator yields inside its loop over the configured keys
\* (OneHot, line 226) and not after it
yields_per_key(self) == self.kind = "OneHot"

\* the decorator processes the next configured key of the batch
DecoratorKey ==
    /\ pc = "deco"
    /\ ~IsNone(deco)
    /\ key_pos < Len(deco.first.keys)
    /\ \E seed \in 0 .. MaxSeed :
         LET key == deco.first.keys[key_pos + 1]
             new == apply_key(deco, key, cur[key], seed)
         IN  IF IsError(new)
             THEN /\ raised' = new.exc
                  /\ pc' = "failed"
                  /\ UNCHANGED <<cur, src, key_pos, out_yield>>
             ELSE /\ cur' = [cur EXCEPT ![key] = new]
                  /\ src' = store(src, cur')
                  /\ key_pos' = key_pos + 1
                  /\ out_yield' = IF yields_per_key(deco)
                                  THEN Append(out_yield, cur')
                                  ELSE out_yield
                  /\ UNCHANGED <<raised, pc>>
    /\ UNCHANGED <<source_vars, validated, deco_args, deco, indices, pos,
                   src_yield, passes>>

\* the loop over the configured keys is over (there is none without a
\* decorator): the batch goes to the consumer, unless the decorator yielded
\* it inside the loop, and the consumer asks for the next
Yield ==
    /\ pc = "deco"
    /\ IF IsNone(deco) THEN TRUE ELSE key_pos = Len(deco.first.keys)
    /\ out_yield' = IF ~IsNone(deco) /\ yields_per_key(deco)
                    THEN out_yield
                    ELSE Append(out_yield, cur)
    /\ key_pos' = 0
    /\ pc' = "pull"
    /\ UNCHANGED <<source_vars, validated, src, deco_args, deco, raised,
                   indices, pos, cur, src_yield, passes>>

\* the pass is over
EndPass ==
    /\ pc = "done"
    /\ passes' = passes + 1
    /\ pc' = "idle"
    /\ UNCHANGED <<source_vars, validated, src, deco_args, deco, raised,
                   indices, pos, cur, key_pos, src_yield, out_yield>>

----------------------------------------------------------------------------
(* Data sets and specifications. *)

\* the digits of Code(i) are the components of i, each plus one: every cell
\* of a coded array holds a number of its own, none of them 0
RECURSIVE Code(_)
Code(i) ==
    IF i = <<>> THEN 0
    ELSE Code(SubSeq(i, 1, Len(i) - 1)) * 10 + i[Len(i)] + 1

coded(shape) == [shape |-> shape, val |-> [i \in Indices(shape) |-> Code(i)]]

\* a mask of shape (T, Len(lens), 1): sequence s is valid for its first
\* lens[s] time steps
mask_of(T, lens) ==
    [shape |-> <<T, Len(lens), 1>>,
     val |-> [i \in Indices(<<T, Len(lens), 1>>) |->
                IF i[1] < lens[i[2] + 1] THEN 1 ELSE 0]]

Dict1(k1, v1) == [k \in {k1} |-> v1]
Dict2(k1, v1, k2, v2) == [k \in {k1, k2} |-> IF k = k1 THEN v1 ELSE v2]

CutName(name) == [ty |-> "str", name |-> name, items |-> <<>>]
CutList(items) == [ty |-> "list", name |-> "", items |-> items]

MinibatchesArgs(batch_size, shuffle, cut_according_to) ==
    [kind |-> "Minibatches", batch_size |-> batch_size, shuffle |-> shuffle,
     cut_according_to |-> cut_according_to]

UndividedArgs ==
    [kind |-> "Undivided", batch_size |-> 1, shuffle |-> FALSE,
     cut_according_to |-> CutName("mask")]

NoDecorator == [kind |-> "None", first |-> EmptyDict, second |-> NoObject]

InitControl ==
    /\ validated = NoObject
    /\ src = NoObject
    /\ deco = NoObject
    /\ pc = "new"
    /\ raised = "none"
    /\ indices = <<>>
    /\ pos = 0
    /\ cur = NoBatch
    /\ key_pos = 0
    /\ src_yield = <<>>
    /\ out_yield = <<>>
    /\ passes = 0

\* Minibatches over T time steps and B sequences, its lengths taken from a
\* mask (sequences of no, one or all time steps), from the time steps (no
\* entry named by cut_according_to), or from an explicit vector, of the
\* right length or not, whose entries may exceed the time steps
InitMinibatches ==
    /\ \E T \in 1 .. MaxTime, B \in 0 .. MaxSeq, batch_size \in 1 .. MaxBatch,
          shuffle \in BOOLEAN :
         \/ \E lens \in [1 .. B -> {0, 1, T}] :
              /\ named_data = Dict2("default", coded(<<T, B, 1>>), "mask", mask_of(T, lens))
              /\ src_args = MinibatchesArgs(batch_size, shuffle, CutName("mask"))
         \/ /\ named_data = Dict1("default", coded(<<T, B, 1>>))
            /\ src_args = MinibatchesArgs(batch_size, shuffle, CutName("mask"))
         \/ \E n \in 0 .. (MaxSeq + 1) : \E lens \in [1 .. n -> {0, T, T + 1}] :
              /\ n # B => \A s \in 1 .. n : lens[s] = T
              /\ (\E s \in 1 .. n : lens[s] > T) => \A s \in 1 .. n : lens[s] > T
              /\ named_data = Dict1("default", coded(<<T, B, 1>>))
              /\ src_args = MinibatchesArgs(batch_size, shuffle, CutList(lens))
    /\ deco_args = NoDecorator
    /\ InitControl

NextMinibatches ==
    \/ ConstructSource
    \/ Undecorated
    \/ StartPass
    \/ SourceNext
    \/ Yield
    \/ EndPass

SpecMinibatches == InitMinibatches /\ [][NextMinibatches]_vars

----------------------------------------------------------------------------
(* Minibatches: the batches of a pass. *)

\* the number of sequences and of time steps of the data given
NrSequences == named_data["default"].shape[2]
TimeSteps == named_data["default"].shape[1]

\* the sequence index a cell of a coded array came from (the second digit
\* of its code), and the sequence indices a batch shows
SeqOfCode(c) == ((c \div 10) % 10) - 1
Visible(batch) ==
    {SeqOfCode(batch["default"].val[i]) : i \in DOMAIN batch["default"].val}

RECURSIVE SumAxis1(_)
SumAxis1(batches) ==
    IF batches = <<>> THEN 0
    ELSE Head(batches)["default"].shape[2] + SumAxis1(Tail(batches))

\* the least k with k * b >= a
LeastCover(a, b) == Min({k \in 0 .. a : k * b >= a})

\* C1: a pass of Minibatches, the first or a later one, yields exactly
\* ceil(n / batch_size) batches; their batch axes hold n sequences in all;
\* no batch shows a sequence twice and no sequence shows in two batches;
\* and every sequence with a time step left after the cut shows in exactly
\* one batch (a sequence of a batch cut to no time steps has no cell to
\* show, and is counted by the batch's axis-1 size alone).
C1_EveryIndexOncePerPass ==
    (pc = "done" /\ src.kind = "Minibatches") =>
        /\ Len(src_yield) = LeastCover(NrSequences, src_args.batch_size)
        /\ src.length = Len(src_yield)
        /\ SumAxis1(src_yield) = NrSequences
        /\ \A k \in 1 .. Len(src_yield) :
              /\ Visible(src_yield[k]) \subseteq 0 .. (NrSequences - 1)
              /\ src_yield[k]["default"].shape[1] > 0 =>
                    Cardinality(Visible(src_yield[k])) = src_yield[k]["default"].shape[2]
        /\ \A s \in 0 .. (NrSequences - 1) :
              LET shown == {k \in 1 .. Len(src_yield) : s \in Visible(src_yield[k])}
              IN  /\ Cardinality(shown) <= 1
                  /\ src.seq_lens[s + 1] > 0 => Cardinality(shown) = 1

\* a second pass, shuffled out of order, over 3 sequences in batches of 2,
\* every sequence of them showing
C1_Witness ==
    /\ pc = "done" /\ src.kind = "Minibatches"
    /\ passes = 1
    /\ src.shuffle /\ indices = <<1, 0>>
    /\ NrSequences = 3 /\ src_args.batch_size = 2
    /\ \A s \in 1 .. 3 : src.seq_lens[s] > 0

\* array a restricted to its first rows time steps and to the sequences
\* lo .. hi-1
Restriction(a, rows, lo, hi) ==
    LET shape == <<rows, hi - lo>> \o SubSeq(a.shape, 3, Len(a.shape))
    IN  [shape |-> shape,
         val |-> [i \in Indices(shape) |->
                    a.val[<<i[1], lo + i[2]>> \o SubSeq(i, 3, Len(i))]]]

\* C2: the k-th batch of a pass is the batch for idx = indices[k]: every
\* key's stored array restricted to the sequences idx * batch_size up to
\* min((idx + 1) * batch_size, n) and to the time steps before the largest
\* sequence length of that slice; all arrays of a batch agree on axes 0 and
\* 1; and without shuffle the k-th batch is the one for idx = k - 1.
C2_BatchIsSliceOfStoredData ==
    (pc \in {"deco", "pull", "done"} /\ src.kind = "Minibatches") =>
        \A k \in 1 .. Len(src_yield) :
            LET idx == indices[k]
                lo == idx * src_args.batch_size
                hi == Min({(idx + 1) * src_args.batch_size, NrSequences})
                cutoff == Max({src.seq_lens[s + 1] : s \in lo .. (hi - 1)})
                rows == Min({cutoff, TimeSteps})
                batch == src_yield[k]
            IN  /\ DOMAIN batch = DOMAIN named_data
                /\ \A key \in DOMAIN named_data :
                      batch[key] = Restriction(named_data[key], rows, lo, hi)
                /\ \A key1, key2 \in DOMAIN batch :
                      /\ batch[key1].shape[1] = batch[key2].shape[1]
                      /\ batch[key1].shape[2] = batch[key2].shape[2]
                /\ ~src.shuffle => idx = k - 1

\* an unshuffled pass over 3 sequences in batches of 2 with a mask: the
\* first batch is cut to one time step of two, the last one is short
C2_Witness ==
    /\ pc = "done" /\ src.kind = "Minibatches"
    /\ ~src.shuffle
    /\ NrSequences = 3 /\ src_args.batch_size = 2 /\ TimeSteps = 2
    /\ "mask" \in DOMAIN named_data
    /\ Len(src_yield) = 2
    /\ src_yield[1]["default"].shape = <<1, 2, 1>>
    /\ src_yield[2]["default"].shape = <<2, 1, 1>>

\* C7: with cut_according_to an explicit vector, Minibatches is constructed
\* if the vector has one entry per sequence, and then uses it as the
\* sequence lengths; otherwise construction fails with the validation
\* error the other construction checks raise, and no iterator results.
C7_VectorLengthMismatchIsShapeError ==
    (pc # "new" /\ src_args.kind = "Minibatches"
        /\ src_args.cut_according_to.ty = "list" /\ ~IsError(validated)) =>
        IF Len(src_args.cut_according_to.items) # validated.nr_sequences
        THEN pc = "failed" /\ raised = "IteratorValidationError" /\ IsNone(src)
        ELSE pc # "failed" /\ src.seq_lens = src_args.cut_according_to.items

----------------------------------------------------------------------------
(* The sequence lengths of a mask. *)

\* the nonzero values a mask marks a valid step with
MaskMarks == {1, -1, 2}

\* Minibatches over a mask alone, every entry of it 0 or the mark
InitMask ==
    /\ \E T \in 1 .. MaxTime, B \in 0 .. MaxSeq, mark \in MaskMarks :
         \E val \in [Indices(<<T, B, 1>>) -> {0, mark}] :
            named_data = Dict1("mask", [shape |-> <<T, B, 1>>, val |-> val])
    /\ src_args = MinibatchesArgs(1, FALSE, CutName("mask"))
    /\ deco_args = NoDecorator
    /\ InitControl

NextMask == ConstructSource

SpecMask == InitMask /\ [][NextMask]_vars

\* the time steps at which sequence s of the mask is nonzero
ValidSteps(mask, s) == {t \in 0 .. (mask.shape[1] - 1) : mask.val[<<t, s, 0>>] # 0}

----------------------------------------------------------------------------
(* The validation of the named values a source is built from. *)

\* a value with no shape attribute
NoShapeValue == [scalar |-> 5]

\* the ranks of the arrays given: below, at and above the 3 required
Ranks == {2, 3, 4}

Shapes == UNION {[1 .. r -> 1 .. MaxTime] : r \in Ranks}

Values == {coded(shape) : shape \in Shapes} \cup {NoShapeValue}

\* a source of either kind over no, one or two named values
InitValidate ==
    /\ \/ named_data = [k \in {} |-> 0]
       \/ \E v \in Values : named_data = Dict1("default", v)
       \/ \E v1, v2 \in Values : named_data = Dict2("default", v1, "mask", v2)
    /\ src_args \in {UndividedArgs, MinibatchesArgs(1, FALSE, CutName("mask"))}
    /\ deco_args = NoDecorator
    /\ InitControl

NextValidate == ConstructSource

SpecValidate == InitValidate /\ [][NextValidate]_vars

\* every value has a shape of at least 3 axes, and all agree on axis 0 and
\* on axis 1
WellFormed(data) ==
    /\ \A k \in DOMAIN data : HasShape(data[k]) /\ Len(data[k].shape) >= 3
    /\ \A k1, k2 \in DOMAIN data :
          /\ data[k1].shape[1] = data[k2].shape[1]
          /\ data[k1].shape[2] = data[k2].shape[2]

\* C9: a source is constructed only from well-formed named values; values
\* that are not well-formed make construction raise the validation error,
\* leaving no iterator; and when the validator returns, it returns the
\* common (axis-1 size, axis-0 size), which it does for every well-formed
\* mapping that is not empty.
C9_SourceValidatesShapes ==
    pc # "new" =>
        /\ pc = "source" => WellFormed(named_data)
        /\ ~WellFormed(named_data) =>
              /\ pc = "failed" /\ raised = "IteratorValidationError"
              /\ IsNone(src)
              /\ validated = Error("IteratorValidationError")
        /\ (pc = "source" \/ (WellFormed(named_data) /\ DOMAIN named_data # {})) =>
              \A k \in DOMAIN named_data :
                 validated = [nr_sequences |-> named_data[k].shape[2],
                              time_steps |-> named_data[k].shape[1]]
        /\ pc = "source" =>
              /\ src.data = named_data
              /\ src.kind = src_args.kind

\* two arrays of 3 and 4 axes with the same number of sequences and
\* different numbers of time steps: rejected
C9_Witness ==
    /\ pc = "failed" /\ raised = "IteratorValidationError"
    /\ DOMAIN named_data = {"default", "mask"}
    /\ HasShape(named_data["default"]) /\ HasShape(named_data["mask"])
    /\ Len(named_data["default"].shape) = 3
    /\ Len(named_data["mask"].shape) = 4
    /\ named_data["default"].shape[2] = named_data["mask"].shape[2]
    /\ named_data["default"].shape[1] # named_data["mask"].shape[1]

----------------------------------------------------------------------------
(* The construction of a decorator. *)

\* the key orders of the dicts given: keys of the data and a key that no
\* data set has
KeySeqs ==
    {<<>>, <<"default">>, <<"targets">>, <<"missing">>,
     <<"default", "targets">>, <<"targets", "default">>,
     <<"default", "missing">>, <<"missing", "targets">>}

SeqSet(q) == {q[i] : i \in 1 .. Len(q)}

\* the dicts with keys in one of these orders and values in V
Dicts(V) ==
    UNION {{[keys |-> ks, at |-> f] : f \in [SeqSet(ks) -> V]} : ks \in KeySeqs}

\* the data sets a decorator is constructed over: "default" of 3 axes
\* ending in 1 or in 2, of 4 axes, of 5 axes, or missing
DecorateData ==
    {Dict2("default", coded(shape), "targets", coded(<<1, 2, 1>>)) :
        shape \in {<<1, 2, 1>>, <<1, 2, 2>>, <<1, 2, 1, 1>>, <<1, 2, 1, 2, 2>>}}
    \cup {Dict1("targets", coded(<<1, 2, 1>>))}

\* crop shapes: a fitting one, too high, negative, a list, a 1-tuple
CropValues ==
    {[ty |-> "tuple", items |-> <<1, 1>>], [ty |-> "tuple", items |-> <<3, 1>>],
     [ty |-> "tuple", items |-> <<1, -1>>], [ty |-> "list", items |-> <<1, 1>>],
     [ty |-> "tuple", items |-> <<1>>]}

\* vocabulary sizes: 2, 0, -1 and 2.0
VocabValues ==
    {[ty |-> "int", val |-> 2], [ty |-> "int", val |-> 0],
     [ty |-> "int", val |-> -1], [ty |-> "float", val |-> 2]}

DecoratorArgs(kind, first, second) == [kind |-> kind, first |-> first, second |-> second]

\* every decorator, over every data set, with its dicts drawn from valid and
\* invalid values, the optional second dict given or not
InitDecorate ==
    /\ named_data \in DecorateData
    /\ src_args \in {UndividedArgs, MinibatchesArgs(1, FALSE, CutName("mask"))}
    /\ \/ \E first \in Dicts({0, 1}), second \in Dicts({1}) \cup {NoObject} :
            deco_args = DecoratorArgs("AddGaussianNoise", first, second)
       \/ \E first \in Dicts({1, ProbOne}), second \in Dicts({ProbHalf}) \cup {NoObject} :
            deco_args = DecoratorArgs("AddSaltNPepper", first, second)
       \/ \E first \in Dicts({-1, ProbHalf, ProbOne + 1}) \cup {NoObject} :
            deco_args = DecoratorArgs("Flip", first, NoObject)
       \/ \E first \in Dicts({0, 1}), second \in Dicts({7}) \cup {NoObject} :
            deco_args = DecoratorArgs("Pad", first, second)
       \/ \E first \in Dicts(CropValues) :
            deco_args = DecoratorArgs("RandomCrop", first, NoObject)
       \/ \E first \in Dicts(VocabValues) :
            deco_args = DecoratorArgs("OneHot", first, NoObject)
    /\ InitControl

NextDecorate ==
    \/ ConstructSource
    \/ Decorate

SpecDecorate == InitDecorate /\ [][NextDecorate]_vars

\* the decorator's constructor has run
Attempted == pc \in {"idle", "failed"} /\ ~IsNone(src)

\* the keys the decorator is configured for (Flip without a dict: "default")
Configured ==
    IF IsNone(deco_args.first) THEN {"default"} ELSE KeySet(deco_args.first)

\* the second dict is given and its keys are not the first dict's
Mismatched ==
    /\ deco_args.kind \in {"AddGaussianNoise", "AddSaltNPepper", "Pad"}
    /\ IF IsNone(deco_args.second) THEN FALSE
       ELSE KeySet(deco_args.second) # KeySet(deco_args.first)

\* a configured key is not among the inner iterator's declared shapes
AbsentKey == \E key \in Configured : key \notin DOMAIN src.data_shapes

\* C6: constructing AddGaussianNoise, AddSaltNPepper or Pad with a second
\* dict whose keys differ from the first's, or any decorator with a
\* configured key absent from the inner iterator's shapes, raises the
\* validation error: there is no decorator, and the inner iterator has
\* yielded nothing and holds the data it was given.
C6_BadConfigurationFailsConstruction ==
    (Attempted /\ (Mismatched \/ AbsentKey)) =>
        /\ pc = "failed" /\ raised = "IteratorValidationError"
        /\ IsNone(deco)
        /\ pos = 0 /\ src_yield = <<>> /\ out_yield = <<>>
        /\ src.data = named_data

\* Pad over 5D data, every key of size_dict present, value_dict given with
\* other keys
C6_Witness ==
    /\ Attempted /\ pc = "failed"
    /\ deco_args.kind = "Pad"
    /\ Mismatched /\ ~AbsentKey
    /\ Configured = {"default"}
    /\ Len(src.data_shapes["default"]) = 5

\* C10: OneHot is constructed only if every configured key's declared
\* shape has 3 axes, the last of size 1, and its vocabulary size is an
\* integer >= 1; a configured key of the data with another shape, or with a
\* vocabulary size that is zero, negative or no integer, makes construction
\* raise the validation error.
C10_OneHotRequiresPositiveVocabulary ==
    (Attempted /\ deco_args.kind = "OneHot") =>
        LET shape_ok(key) == /\ Len(src.data_shapes[key]) = 3
                             /\ src.data_shapes[key][3] = 1
            vocab_ok(key) == /\ deco_args.first.at[key].ty = "int"
                             /\ deco_args.first.at[key].val >= 1
        IN  /\ pc = "idle" =>
                 \A key \in Configured :
                    key \in DOMAIN src.data_shapes /\ shape_ok(key) /\ vocab_ok(key)
            /\ (\E key \in Configured :
                    key \in DOMAIN src.data_shapes /\ ~(shape_ok(key) /\ vocab_ok(key))) =>
                 pc = "failed" /\ raised = "IteratorValidationError" /\ IsNone(deco)

----------------------------------------------------------------------------
(* The pipeline: a source, a decorator or none, and passes. *)

\* class indices 0 and 1, for the one-hot encoder
classes(shape) ==
    [shape |-> shape, val |-> [i \in Indices(shape) |-> (i[1] + i[2]) % 2]]

\* sequence data: two arrays of shape (T, B, 1) holding class indices
SequenceData ==
    {Dict2("default", classes(<<T, B, 1>>), "targets", classes(<<T, B, 1>>)) :
        T \in 1 .. MaxTime, B \in 1 .. 2}

\* image data: one array of shape (1, B, 1, H, W), every cell with a code
\* of its own
ImageData ==
    {Dict1("default", coded(<<1, B, 1, hw[1], hw[2]>>)) :
        B \in 1 .. 2, hw \in {<<1, 2>>, <<2, 2>>}}

PipelineSources ==
    {UndividedArgs}
    \cup {MinibatchesArgs(batch_size, shuffle, CutName("mask")) :
            batch_size \in 1 .. MaxBatch, shuffle \in BOOLEAN}

OneKey(v) == [keys |-> <<"default">>, at |-> Dict1("default", v)]
TwoKeys(v, w) ==
    [keys |-> <<"default", "targets">>, at |-> Dict2("default", v, "targets", w)]

Vocab(n) == [ty |-> "int", val |-> n]

\* a source of either kind over sequence or image data, driven directly or
\* through one decorator
Init ==
    /\ named_data \in SequenceData \cup ImageData
    /\ src_args \in PipelineSources
    /\ \/ deco_args = NoDecorator
       \/ \E std \in {0, 1}, second \in {NoObject, OneKey(1)} :
            deco_args = DecoratorArgs("AddGaussianNoise", OneKey(std), second)
       \/ \E pr \in {ProbHalf, ProbOne} :
            deco_args = DecoratorArgs("AddSaltNPepper", OneKey(pr), NoObject)
       \/ \E first \in {NoObject, OneKey(ProbOne)} :
            deco_args = DecoratorArgs("Flip", first, NoObject)
       \/ \E size \in 0 .. MaxPad, second \in {NoObject, OneKey(7)} :
            deco_args = DecoratorArgs("Pad", OneKey(size), second)
       \/ deco_args = DecoratorArgs("RandomCrop",
                         OneKey([ty |-> "tuple", items |-> <<1, 1>>]), NoObject)
       \/ \E first \in {EmptyDict, OneKey(Vocab(2)), TwoKeys(Vocab(2), Vocab(2)),
                        OneKey(Vocab(0)), OneKey(Vocab(-1))} :
            deco_args = DecoratorArgs("OneHot", first, NoObject)
    /\ InitControl

Next ==
    \/ ConstructSource
    \/ Decorate
    \/ Undecorated
    \/ StartPass
    \/ SourceNext
    \/ DecoratorKey
    \/ Yield
    \/ EndPass

Spec == Init /\ [][Next]_vars

\* C4: every pass of Undivided, the first or a later one, yields one batch
\* and ends, and the batch holds the keys and arrays given at construction.
C4_UndividedYieldsItsInputOnce ==
    (pc \in {"pull", "deco", "done"} /\ src.kind = "Undivided") =>
        /\ Len(src_yield) <= 1
        /\ pc \in {"deco", "done"} => Len(src_yield) = 1
        /\ \A k \in 1 .. Len(src_yield) :
              /\ DOMAIN src_yield[k] = DOMAIN named_data
              /\ \A key \in DOMAIN named_data : src_yield[k][key] = named_data[key]

\* the declared length of the outermost iterator
DeclaredLength == IF IsNone(deco) THEN src.length ELSE deco.length

\* C5: a pass of the outermost iterator, a source or a decorator over it,
\* hands the consumer as many batches as the iterator's declared length,
\* which is one for every batch the inner iterator yields.
C5_PassYieldsDeclaredLength ==
    pc = "done" =>
        /\ Len(out_yield) = DeclaredLength
        /\ Len(out_yield) = Len(src_yield)

\* array a with a border of size cells of the fill value on the four sides
\* of its last two axes
Padded(a, size, fill) ==
    LET shape == <<a.shape[1], a.shape[2], a.shape[3],
                   a.shape[4] + 2 * size, a.shape[5] + 2 * size>>
    IN  [shape |-> shape,
         val |-> [i \in Indices(shape) |->
                    IF /\ i[4] >= size /\ i[4] < size + a.shape[4]
                       /\ i[5] >= size /\ i[5] < size + a.shape[5]
                    THEN a.val[<<i[1], i[2], i[3], i[4] - size, i[5] - size>>]
                    ELSE fill]]

\* C8: for every pad size >= 0, Pad turns the 5D array (t, b, c, h, w) of a
\* configured key into the array (t, b, c, h + 2 * size, w + 2 * size) that
\* holds the input in its centre and the fill value (0 when none is
\* configured) around it; in particular Pad raises nothing.
C8_PadSurroundsInputWithFill ==
    (~IsNone(deco) /\ deco.kind = "Pad") =>
        /\ pc # "failed"
        /\ (pc = "deco" /\ key_pos = 1) =>
              LET fill == IF IsNone(deco_args.second) THEN 0
                          ELSE deco_args.second.at["default"]
              IN  cur["default"] =
                     Padded(src_yield[Len(src_yield)]["default"],
                            deco_args.first.at["default"], fill)

\* C11: while a decorator over a source is driven, pass after pass, the
\* source's stored mapping keeps associating every key given at construction
\* with the array given at construction: no step of the decorator changes it.
C11_DecoratorLeavesSourceDataAlone ==
    (~IsNone(deco) /\ pc \in {"idle", "pull", "deco", "done"}) =>
        /\ DOMAIN src.data = DOMAIN named_data
        /\ \A key \in DOMAIN named_data : src.data[key] = named_data[key]

====
